---- MODULE Spec2Model ----
(***************************************************************************)
(* Model of e2b_code_interpreter/models.py: the Result normaliser          *)
(* (Result.__init__ and its accessors), Execution.text and                 *)
(* Error.traceback.                                                        *)
(*                                                                         *)
(* Python objects live in a heap of mapping objects so that aliasing and   *)
(* copying are visible: a dict is a heap object, a variable or a field     *)
(* holding a dict holds a reference to it.                                 *)
(***************************************************************************)
EXTENDS Integers, Sequences, FiniteSets, TLC

\* ------------------------------------------------------------------ bounds
MaxInitKeys == 2      \* keys in the mapping the caller starts with
MaxMutations == 1     \* caller-side mutations of its objects in one run
MaxCalls == 2         \* Result(...) calls in one run
MaxResults == 3       \* length of Execution.results
MaxLines == 3         \* length of Error.traceback_raw

\* ------------------------------------------------------------------ values
\* A Python value: None, a str, or a reference to a dict on the heap.
None == [kind |-> "none", s |-> "", ref |-> 0]
Str(a) == [kind |-> "str", s |-> a, ref |-> 0]
Dict(o) == [kind |-> "dict", s |-> "", ref |-> o]

Atoms == {"42", "hi"}

\* The fields of Result in the order __init__ assigns them from data.pop.
FieldOrderTextLast ==
    <<"html", "markdown", "svg", "png", "jpeg", "pdf", "latex", "json",
      "javascript", "text">>

FieldOrder ==
    <<"text", "html", "markdown", "svg", "png", "jpeg", "pdf", "latex",
      "json", "javascript">>

FieldKeyTextSwapped ==
    [text |-> "text/html", html |-> "text/plain", markdown |-> "text/markdown",
     svg |-> "image/svg+xml", png |-> "image/png", jpeg |-> "image/jpeg",
     pdf |-> "application/pdf", latex |-> "text/latex",
     json |-> "application/json", javascript |-> "application/javascript"]

FieldKeyPngJpegSwapped ==
    [text |-> "text/plain", html |-> "text/html", markdown |-> "text/markdown",
     svg |-> "image/svg+xml", png |-> "image/jpeg", jpeg |-> "image/png",
     pdf |-> "application/pdf", latex |-> "text/latex",
     json |-> "application/json", javascript |-> "application/javascript"]

\* The MIME key each field is popped from.
FieldKey ==
    [text |-> "text/plain", html |-> "text/html", markdown |-> "text/markdown",
     svg |-> "image/svg+xml", png |-> "image/png", jpeg |-> "image/jpeg",
     pdf |-> "application/pdf", latex |-> "text/latex",
     json |-> "application/json", javascript |-> "application/javascript"]

\* Fields popped without a default (a missing key raises KeyError).
RequiredFields == {"text"}

CustomKeys == {"application/x-custom", "application/vnd.plotly"}

\* Keys under which the kernel delivers a structured (dict) payload.
DictKeys == {"application/json", "application/x-custom"}

NestedKeys == {"x"}

\* Heap objects: the caller's mapping, the caller's nested dict, and room
\* for the copies made by Result(...): those the current Result holds and
\* those a call in progress is building.
DataId == 1
NestedId == 2
ObjIds == 1..8

VARIABLES
    heap,            \* allocated dict objects: object id -> mapping
    result,          \* the caller's variable bound to the last Result built
    outcome,         \* how the last Result(...) call ended
    lastOp,          \* the operation the caller performed last
    ncalls,          \* Result(...) calls made
    nmut,            \* caller-side mutations made
    arg,             \* contents of `data` on entry to the last call
    arg_flag,        \* is_main_result passed to the last call
    made_from,       \* contents of `data` on entry to the call that built result
    results,         \* Execution.results
    exec_text,       \* value last read from Execution.text
    traceback_raw,   \* Error.traceback_raw
    traceback        \* value last read from Error.traceback

vars == <<heap, result, outcome, lastOp, ncalls, nmut, arg, arg_flag,
          made_from, results, exec_text, traceback_raw, traceback>>

resultVars == <<heap, result, outcome, ncalls, nmut, arg, arg_flag, made_from>>
execVars == <<results, exec_text>>
errorVars == <<traceback_raw, traceback>>

\* ------------------------------------------------------------ dict helpers
EmptyMap == [k \in {} |-> None]

Restrict(m, ks) == [k \in ks |-> m[k]]

\* d[k] = v
DictSet(m, k, v) == [x \in DOMAIN m \cup {k} |-> IF x = k THEN v ELSE m[x]]

\* del d[k]
DictDel(m, k) == Restrict(m, DOMAIN m \ {k})

DictPopNoRaise(m, k) ==
    [raised |-> FALSE,
     val |-> IF k \in DOMAIN m THEN m[k] ELSE None,
     rest |-> DictDel(m, k)]

\* d.pop(k): raises KeyError when k is missing, the dict is then untouched.
DictPop(m, k) ==
    IF k \in DOMAIN m
    THEN [raised |-> FALSE, val |-> m[k], rest |-> DictDel(m, k)]
    ELSE [raised |-> TRUE, val |-> None, rest |-> m]

DictGetDefault(m, k, default) ==
    [raised |-> FALSE,
     val |-> IF k \in DOMAIN m THEN m[k] ELSE default,
     rest |-> m]

\* d.pop(k, default): never raises.
DictPopDefault(m, k, default) ==
    [raised |-> FALSE,
     val |-> IF k \in DOMAIN m THEN m[k] ELSE default,
     rest |-> DictDel(m, k)]

\* ------------------------------------------------------------ heap helpers
\* The smallest object ids not in use.
FreshIds(h, n) ==
    CHOOSE S \in SUBSET (ObjIds \ DOMAIN h) :
        /\ Cardinality(S) = n
        /\ \A a \in S : \A b \in (ObjIds \ DOMAIN h) \ S : a < b

Min(S) == CHOOSE a \in S : \A b \in S : a <= b

\* Objects a mapping refers to.
RefsOf(m) == {m[k].ref : k \in {x \in DOMAIN m : m[x].kind = "dict"}}

\* Objects reachable from a set of root objects (dicts nest one level deep).
Reachable(h, roots) ==
    roots \cup UNION {RefsOf(h[o]) : o \in roots \cap DOMAIN h}

\* The value a Python value denotes, with dict references replaced by the
\* contents of the dict they point to.
Deep(h, v) ==
    [kind |-> v.kind, s |-> v.s,
     items |-> IF v.kind = "dict" THEN h[v.ref] ELSE EmptyMap]

DeepMap(h, o) == [k \in DOMAIN h[o] |-> Deep(h, h[o][k])]

\* copy.copy(data): a new top-level dict sharing the nested dicts.
ShallowCopy(h, o) ==
    LET id == Min(ObjIds \ DOMAIN h)
    IN  [heap |-> [x \in DOMAIN h \cup {id} |-> IF x = id THEN h[o] ELSE h[x]],
         ref |-> id]

\* copy.deepcopy(data): a new top-level dict whose nested dicts are new
\* objects too, one copy per distinct nested dict.
DeepCopy(h, o) ==
    LET refs == RefsOf(h[o])
        S == FreshIds(h, Cardinality(refs) + 1)
        top == Min(S)
        memo == CHOOSE f \in [refs -> S \ {top}] :
                    \A a, b \in refs : a < b => f[a] < f[b]
        copyOf(v) == IF v.kind = "dict" THEN Dict(memo[v.ref]) ELSE v
        new(x) == IF x = top
                  THEN [k \in DOMAIN h[o] |-> copyOf(h[o][k])]
                  ELSE h[CHOOSE r \in refs : memo[r] = x]
    IN  [heap |-> [x \in DOMAIN h \cup S |-> IF x \in S THEN new(x) ELSE h[x]],
         ref |-> top]

\* ------------------------------------------------------------------ Result
\* A Result object before __init__ has assigned anything; also the value of
\* the caller's variable while no Result has been built.
NoResult ==
    [is_main_result |-> FALSE, raw |-> None, text |-> None, html |-> None,
     markdown |-> None, svg |-> None, png |-> None, jpeg |-> None,
     pdf |-> None, latex |-> None, json |-> None, javascript |-> None,
     extra |-> None]

\* The data.pop(...) statements from the i-th on, applied to the mapping m.
\* A KeyError stops the sequence; the pops already done stay done.
RECURSIVE Extract(_, _, _)
Extract(m, self, i) ==
    IF i > Len(FieldOrder)
    THEN [raised |-> FALSE, data |-> m, self |-> self]
    ELSE LET f == FieldOrder[i]
             p == IF f \in RequiredFields
                  THEN DictPop(m, FieldKey[f])
                  ELSE DictPopDefault(m, FieldKey[f], None)
         IN  IF p.raised
             THEN [raised |-> TRUE, data |-> p.rest, self |-> self]
             ELSE Extract(p.rest, [self EXCEPT ![f] = p.val], i + 1)

\* self.extra = dict(data)
AssignExtraCopy(h, self, d) ==
    LET c == ShallowCopy(h, d)
    IN  [heap |-> c.heap, self |-> [self EXCEPT !.extra = Dict(c.ref)]]

\* self.extra = data
AssignExtra(h, self, d) ==
    [heap |-> h, self |-> [self EXCEPT !.extra = Dict(d)]]

\* self.is_main_result = is_main_result
SetMainFlag(self, is_main) == [self EXCEPT !.is_main_result = is_main]

\* Result.__init__(self, is_main_result, data), data being the object d.
ResultInit(h, is_main, d) ==
    LET c == DeepCopy(h, d)
        self0 == [SetMainFlag(NoResult, is_main) EXCEPT !.raw = Dict(c.ref)]
        e == Extract(c.heap[d], self0, 1)
        h1 == [c.heap EXCEPT ![d] = e.data]
        x == AssignExtra(h1, e.self, d)
    IN  IF e.raised
        THEN [raised |-> TRUE, heap |-> h1, self |-> e.self]
        ELSE [raised |-> FALSE, heap |-> x.heap, self |-> x.self]

\* Result.keys()
ResultKeys(h, self) == DOMAIN h[self.raw.ref]

\* Result.__str__()
ResultStr(self) == self.text

\* Result._repr_html_() .. Result._repr_javascript_(), by field name.
Repr(self, f) == self[f]

OptionalFields == {FieldOrder[i] : i \in 1..Len(FieldOrder)} \ RequiredFields
WellKnownKeys == {FieldKey[FieldOrder[i]] : i \in 1..Len(FieldOrder)}
AllKeys == WellKnownKeys \cup CustomKeys

\* Objects a Result refers to.
ResultRefs(self) ==
    {self[f].ref : f \in {g \in DOMAIN self \ {"is_main_result"} :
                              self[g].kind = "dict"}}

\* Reference counting: objects nothing refers to any more are freed.
Collect(h, self) ==
    Restrict(h, DOMAIN h \cap Reachable(h, {DataId, NestedId} \cup ResultRefs(self)))

\* Values the caller puts under key k.
ValuesFor(k) ==
    {Str(a) : a \in Atoms} \cup (IF k \in DictKeys THEN {Dict(NestedId)} ELSE {})

\* Keys the caller writes to or deletes after the mapping was built.
MutKeys == {"text/plain", "text/html", "application/json", "application/x-custom"}

InitMappings ==
    UNION {{m \in [K -> UNION {ValuesFor(k) : k \in K}] :
                \A k \in K : m[k] \in ValuesFor(k)} :
           K \in {S \in SUBSET AllKeys : Cardinality(S) <= MaxInitKeys}}

InitCommon ==
    /\ lastOp = "init"
    /\ result = NoResult
    /\ outcome = "none"
    /\ ncalls = 0
    /\ nmut = 0
    /\ arg = EmptyMap
    /\ arg_flag = FALSE
    /\ made_from = EmptyMap
    /\ exec_text = None
    /\ traceback = <<>>

\* The caller holds a MIME mapping and a nested dict; no Result exists yet.
InitResult ==
    /\ InitCommon
    /\ \E m \in InitMappings :
          heap = [o \in {DataId, NestedId} |->
                     IF o = DataId THEN m ELSE [k \in NestedKeys |-> Str("42")]]
    /\ results = <<>>
    /\ traceback_raw = <<>>

\* result = Result(flag, data)
Construct(flag) ==
    /\ ncalls < MaxCalls
    /\ LET r == ResultInit(heap, flag, DataId)
           bound == IF r.raised THEN result ELSE r.self
       IN  /\ heap' = Collect(r.heap, bound)
           /\ result' = bound
           /\ outcome' = IF r.raised THEN "KeyError" ELSE "ok"
           /\ made_from' = IF r.raised THEN made_from ELSE DeepMap(heap, DataId)
    /\ arg' = DeepMap(heap, DataId)
    /\ arg_flag' = flag
    /\ ncalls' = ncalls + 1
    /\ lastOp' = "construct"
    /\ UNCHANGED <<nmut, execVars, errorVars>>

\* data[k] = v, by the caller
CallerSetItem(k, v) ==
    /\ nmut < MaxMutations
    /\ heap' = [heap EXCEPT ![DataId] = DictSet(@, k, v)]
    /\ nmut' = nmut + 1
    /\ lastOp' = "setitem"
    /\ UNCHANGED <<result, outcome, ncalls, arg, arg_flag, made_from,
                   execVars, errorVars>>

\* del data[k], by the caller
CallerDelItem(k) ==
    /\ nmut < MaxMutations
    /\ k \in DOMAIN heap[DataId]
    /\ heap' = [heap EXCEPT ![DataId] = DictDel(@, k)]
    /\ nmut' = nmut + 1
    /\ lastOp' = "delitem"
    /\ UNCHANGED <<result, outcome, ncalls, arg, arg_flag, made_from,
                   execVars, errorVars>>

\* nested[k] = a, by the caller, on the dict it passed as a structured payload
NestedSetItem(k, a) ==
    /\ nmut < MaxMutations
    /\ heap' = [heap EXCEPT ![NestedId] = DictSet(@, k, Str(a))]
    /\ nmut' = nmut + 1
    /\ lastOp' = "nested_setitem"
    /\ UNCHANGED <<result, outcome, ncalls, arg, arg_flag, made_from,
                   execVars, errorVars>>

NextResult ==
    \/ \E flag \in BOOLEAN : Construct(flag)
    \/ \E k \in MutKeys : \E v \in ValuesFor(k) : CallerSetItem(k, v)
    \/ \E k \in MutKeys : CallerDelItem(k)
    \/ \E k \in NestedKeys : \E a \in Atoms : NestedSetItem(k, a)

SpecResult == InitResult /\ [][NextResult]_vars

\* --------------------------------------------------------------- Execution
\* A Result as Execution.text reads it: its flag and its text.
ResultViews == [is_main_result : BOOLEAN, text : {Str(a) : a \in Atoms}]

RECURSIVE ScanLast(_, _)
ScanLast(rs, i) ==
    IF i < 1 THEN None
    ELSE IF rs[i].is_main_result THEN rs[i].text
    ELSE ScanLast(rs, i - 1)

\* The loop of Execution.text from the i-th Result on; falling off the end
\* of the loop returns None.
RECURSIVE Scan(_, _)
Scan(rs, i) ==
    IF i > Len(rs) THEN None
    ELSE IF rs[i].is_main_result THEN rs[i].text
    ELSE Scan(rs, i + 1)

ExecutionTextLast(rs) == ScanLast(rs, Len(rs))

\* Execution.text
ExecutionText(rs) == Scan(rs, 1)

SeqsUpTo(S, n) == UNION {[1..k -> S] : k \in 0..n}

\* An Execution built empty or with the results of a finished run.
InitExecution ==
    /\ InitCommon
    /\ heap = [o \in {DataId, NestedId} |-> EmptyMap]
    /\ results \in SeqsUpTo(ResultViews, MaxResults)
    /\ traceback_raw = <<>>

\* execution.results.append(Result(flag, {"text/plain": t}))
ExecAppend(flag, t) ==
    /\ Len(results) < MaxResults
    /\ results' = Append(results, [is_main_result |-> flag, text |-> Str(t)])
    /\ lastOp' = "append"
    /\ UNCHANGED <<resultVars, exec_text, errorVars>>

\* execution.text
ExecReadText ==
    /\ exec_text' = ExecutionText(results)
    /\ lastOp' = "exec_text"
    /\ UNCHANGED <<resultVars, results, errorVars>>

NextExecution ==
    \/ \E flag \in BOOLEAN : \E t \in Atoms : ExecAppend(flag, t)
    \/ ExecReadText

SpecExecution == InitExecution /\ [][NextExecution]_vars

\* ------------------------------------------------------------------- Error
\* Strings are sequences of characters.
NL == <<"\n">>
Line1 == <<"l", "i", "n", "e", "1">>
Line2 == <<"l", "i", "n", "e", "2">>
Lines == {<<>>, Line1, Line2}

RECURSIVE JoinTrailing(_, _)
JoinTrailing(sep, xs) ==
    IF xs = <<>> THEN <<>>
    ELSE Head(xs) \o sep \o JoinTrailing(sep, Tail(xs))

\* sep.join(xs)
RECURSIVE Join(_, _)
Join(sep, xs) ==
    IF xs = <<>> THEN <<>>
    ELSE IF Len(xs) = 1 THEN Head(xs)
    ELSE Head(xs) \o sep \o Join(sep, Tail(xs))

\* Error.traceback
ErrorTraceback(raw) == Join(NL, raw)

InitError ==
    /\ InitCommon
    /\ heap = [o \in {DataId, NestedId} |-> EmptyMap]
    /\ results = <<>>
    /\ traceback_raw \in SeqsUpTo(Lines, MaxLines)

\* error.traceback_raw.append(line)
ErrorAppendLine(line) ==
    /\ Len(traceback_raw) < MaxLines
    /\ traceback_raw' = Append(traceback_raw, line)
    /\ lastOp' = "append_line"
    /\ UNCHANGED <<resultVars, execVars, traceback>>

\* error.traceback
ErrorReadTraceback ==
    /\ traceback' = ErrorTraceback(traceback_raw)
    /\ lastOp' = "traceback"
    /\ UNCHANGED <<resultVars, execVars, traceback_raw>>

NextError ==
    \/ \E line \in Lines : ErrorAppendLine(line)
    \/ ErrorReadTraceback

SpecError == InitError /\ [][NextError]_vars

\* ================================================================== claims
Constructed == lastOp = "construct" /\ outcome = "ok"
Failed == lastOp = "construct" /\ outcome = "KeyError"
NonWellKnown(m) == Restrict(m, DOMAIN m \ WellKnownKeys)

\* C1: Result(is_main_result, data) with "text/plain" in data leaves the
\* caller's mapping with exactly the keys and values it had before the call.
C1_CallerMappingUntouched ==
    (lastOp = "construct" /\ "text/plain" \in DOMAIN arg)
        => DeepMap(heap, DataId) = arg

\* C2: result.raw equals the input mapping as it was when the constructor
\* was called, whatever the constructor's extraction and the caller's later
\* insertions, removals and overwrites do to the caller's objects.
C2_RawIsIndependentCopy ==
    result # NoResult =>
        /\ result.raw.kind = "dict"
        /\ result.raw.ref \notin {DataId, NestedId}
        /\ DeepMap(heap, result.raw.ref) = made_from
        /\ ResultKeys(heap, result) = DOMAIN made_from

C2_Witness ==
    /\ result # NoResult
    /\ lastOp = "nested_setitem"
    /\ "application/json" \in DOMAIN made_from
    /\ made_from["application/json"].kind = "dict"
    /\ made_from["application/json"].items # heap[NestedId]

\* C3: when the input contains "text/plain" the constructor does not raise,
\* result.text is the input's "text/plain" value and result.is_main_result
\* is the flag passed in.
C3_TextAndFlag ==
    (lastOp = "construct" /\ "text/plain" \in DOMAIN arg) =>
        /\ outcome = "ok"
        /\ Deep(heap, result.text) = arg["text/plain"]
        /\ ResultStr(result) = result.text
        /\ result.is_main_result = arg_flag

C3_Witness ==
    /\ Constructed
    /\ arg_flag
    /\ arg["text/plain"].s = "hi"
    /\ Cardinality(DOMAIN arg) = 2

\* C4: a call on a mapping without "text/plain" raises KeyError whatever
\* other keys are present; no Result is returned (the caller's variable keeps
\* what it held) and no default text is substituted.
C4_MissingTextRaises ==
    [][(ncalls' = ncalls + 1 /\ "text/plain" \notin DOMAIN heap[DataId])
          => (outcome' = "KeyError" /\ result' = result)]_vars

C4_Witness ==
    /\ Failed
    /\ DOMAIN arg \cap WellKnownKeys # {}
    /\ DOMAIN arg \cap CustomKeys # {}

\* The nine optional MIME keys and the field each one is said to fill.
C5_KeyOfField ==
    [html |-> "text/html", markdown |-> "text/markdown",
     svg |-> "image/svg+xml", png |-> "image/png", jpeg |-> "image/jpeg",
     pdf |-> "application/pdf", latex |-> "text/latex",
     json |-> "application/json", javascript |-> "application/javascript"]

\* C5: each optional well-known key present in the input gives its value to
\* the named field and to the field's _repr_ hook and is absent from extra;
\* each one absent from the input leaves the field and the hook None.
C5_OptionalFields ==
    Constructed =>
        \A f \in DOMAIN C5_KeyOfField :
            LET key == C5_KeyOfField[f]
            IN  IF key \in DOMAIN arg
                THEN /\ Deep(heap, result[f]) = arg[key]
                     /\ Deep(heap, Repr(result, f)) = arg[key]
                     /\ key \notin DOMAIN heap[result.extra.ref]
                ELSE /\ result[f] = None
                     /\ Repr(result, f) = None

C5_Witness ==
    /\ Constructed
    /\ DOMAIN arg = {"text/plain", "image/png"}
    /\ result.png = Str("hi")
    /\ result.html = None

\* C6: extra holds exactly the input's entries whose key is not well-known,
\* values unchanged; it holds no well-known key and is empty when the input
\* has only well-known keys.
C6_ExtraIsRemainder ==
    Constructed =>
        /\ result.extra.kind = "dict"
        /\ DeepMap(heap, result.extra.ref) = NonWellKnown(arg)
        /\ DOMAIN heap[result.extra.ref] \cap WellKnownKeys = {}
        /\ (DOMAIN arg \subseteq WellKnownKeys => heap[result.extra.ref] = EmptyMap)

C6_Witness ==
    /\ Constructed
    /\ DOMAIN arg = {"text/plain", "application/x-custom"}
    /\ DOMAIN heap[result.extra.ref] = {"application/x-custom"}

\* C7: Execution.text is the text of the first Result in order whose
\* is_main_result is true, and None when no Result is flagged.
C7_FirstMainText ==
    lastOp = "exec_text" =>
        LET flagged == {i \in 1..Len(results) : results[i].is_main_result}
        IN  exec_text = IF flagged = {} THEN None ELSE results[Min(flagged)].text

C7_Witness ==
    /\ lastOp = "exec_text"
    /\ Len(results) = 3
    /\ ~results[1].is_main_result
    /\ results[2].is_main_result /\ results[3].is_main_result
    /\ results[2].text # results[3].text

\* Characters before the i-th line in the joined traceback.
RECURSIVE Offset(_, _)
Offset(raw, i) ==
    IF i = 1 THEN 0 ELSE Offset(raw, i - 1) + Len(raw[i - 1]) + 1

\* C8: traceback is the lines of the current traceback_raw in order with one
\* newline between consecutive lines and none before or after; the empty
\* sequence gives the empty string.
C8_TracebackJoin ==
    lastOp = "traceback" =>
        LET n == Len(traceback_raw)
        IN  /\ Len(traceback) = IF n = 0 THEN 0 ELSE Offset(traceback_raw, n + 1) - 1
            /\ \A i \in 1..n :
                  LET off == Offset(traceback_raw, i)
                      len == Len(traceback_raw[i])
                  IN  /\ SubSeq(traceback, off + 1, off + len) = traceback_raw[i]
                      /\ i < n => traceback[off + len + 1] = "\n"
            /\ (traceback_raw = <<Line1, Line2>>
                  => traceback = <<"l", "i", "n", "e", "1", "\n",
                                   "l", "i", "n", "e", "2">>)

C8_Witness ==
    /\ lastOp = "traceback"
    /\ traceback_raw = <<Line1, Line2>>
    /\ Len(traceback) = 11

\* C9: result.extra is the caller's own mapping object, stripped of the
\* well-known keys; what the caller later inserts into or removes from that
\* mapping shows through result.extra while raw and the named fields stay as
\* they were; a second construction from the same object raises KeyError.
C9_ExtraAliasesCallerMapping ==
    /\ [](result # NoResult => result.extra = Dict(DataId))
    /\ [](Constructed => DeepMap(heap, DataId) = NonWellKnown(arg))
    /\ [][(result # NoResult /\ lastOp' \in {"setitem", "delitem"}) =>
            /\ result' = result
            /\ heap'[result.extra.ref] = heap'[DataId]
            /\ DeepMap(heap', result.raw.ref) = DeepMap(heap, result.raw.ref)
            /\ \A f \in OptionalFields \cup RequiredFields :
                  Deep(heap', result[f]) = Deep(heap, result[f])]_vars
    /\ [][(Constructed /\ ncalls' = ncalls + 1) => outcome' = "KeyError"]_vars

C9_Witness ==
    /\ Failed
    /\ result # NoResult
    /\ ncalls = 2
    /\ nmut = 0
    /\ DOMAIN heap[result.raw.ref] = {"text/plain", "application/vnd.plotly"}
    /\ DOMAIN heap[result.extra.ref] = {"application/vnd.plotly"}

\* C10: a construction that fails for lack of "text/plain" leaves the
\* caller's mapping with exactly the keys and values it had, other
\* well-known keys included.
C10_FailureLeavesMappingIntact ==
    Failed => DeepMap(heap, DataId) = arg

C10_Witness ==
    /\ Failed
    /\ DOMAIN arg = {"text/html", "image/png"}
    /\ DOMAIN heap[DataId] = {"text/html", "image/png"}

====
